---- MODULE Spec2Model ----
(***************************************************************************)
(* A model of src/flask_app.py: the /analyze route (analyze) and the data  *)
(* pipeline it drives: load_historical_data, calculate_indicators,         *)
(* screen_and_extract, and the ranking done with pandas in analyze.        *)
(*                                                                         *)
(* Numbers.  Prices and volumes are integers.  A pandas cell is a Bar      *)
(* whose nan flag says that the provider had no bar on that date (yfinance *)
(* pads a ticker's missing dates with NaN in a shared date index).         *)
(* open_ratio is held in thousandths (1015 stands for 1.015), and a        *)
(* percentage is an exact fraction [num, den] with den > 0.  The modelled  *)
(* values are chosen so that the float comparison and the exact one agree  *)
(* (no product open_ratio * close falls on an integer unless open_ratio is *)
(* 1.0), and so that no formatted value is a rounding tie.                 *)
(***************************************************************************)
EXTENDS Integers, Sequences, FiniteSets, TLC

\* ------------------------------------------------------------------ constants

IHSG_TICKER == "^JKSE"

\* indicator_params['vol_period'] and ['hist_days'], fixed by analyze
VolPeriod == 20
HistDays == 30

\* the form defaults of analyze, used when a field is absent
DefaultOpenRatio == 1015
DefaultMinPrice == 50
DefaultMinVolumeShares == 5000000
DefaultSmaShort == 20
DefaultSmaLong == 60
DefaultRsiPeriod == 14

\* ------------------------------------------------------------------ bounds

\* rows a response may have beyond the HistDays + 1 that make a return defined
MaxExtraRows == 0

\* the stock tickers a user may ask for (the benchmark may be asked for too)
StockTickers == {"AAA.JK", "BBB.JK"}
TickerOrder == <<"AAA.JK", "BBB.JK", "^JKSE">>

AllFields == {"Open", "High", "Low", "Close", "Volume"}

\* ------------------------------------------------------------------ values

NaNBar == [nan |-> TRUE, Open |-> 0, Close |-> 0, Volume |-> 0]
MkBar(o, c, v) == [nan |-> FALSE, Open |-> o, Close |-> c, Volume |-> v]

\* float('nan') as a percentage
NaNPct == [nan |-> TRUE, num |-> 0, den |-> 1]
Pct(n, d) == [nan |-> FALSE, num |-> n, den |-> d]

\* a < b on defined percentages (denominators are positive)
PctLess(a, b) == a.num * b.den < b.num * a.den

\* the nearest integer to a / b for a >= 0, b > 0
RoundDiv(a, b) == (2 * a + b) \div (2 * b)
\* the nearest integer to a / b for any a, b > 0
RoundDivSigned(a, b) == IF a >= 0 THEN RoundDiv(a, b) ELSE 0 - RoundDiv(0 - a, b)

\* f"{x:,.2f}" of an integer-valued float: the value in hundredths, or 'nan'
Fmt2(isnan, x) == IF isnan THEN [nan |-> TRUE, v |-> 0] ELSE [nan |-> FALSE, v |-> 100 * x]
\* f"{x:,.0f}"
Fmt0(isnan, x) == IF isnan THEN [nan |-> TRUE, v |-> 0] ELSE [nan |-> FALSE, v |-> x]

\* the elements of a set of tickers, in the order of TickerOrder
InOrder(S) == SelectSeq(TickerOrder, LAMBDA t : t \in S)

SeqToSet(s) == {s[i] : i \in DOMAIN s}

\* ------------------------------------------------------------------ the form

\* A form field as the browser sends it: absent, a numeral, or text that is
\* no numeral ('abc').
Absent == [given |-> FALSE, ok |-> TRUE, v |-> 0]
Numeral(x) == [given |-> TRUE, ok |-> TRUE, v |-> x]
NotANumber == [given |-> TRUE, ok |-> FALSE, v |-> 0]

\* form_data.get(name, default) followed by float(...) or int(...):
\* whether it raises ValueError, and the value otherwise
Raises(field) == field.given /\ ~field.ok
Parsed(field, default) == IF field.given THEN field.v ELSE default

Forms ==
  [ tickers_list : SUBSET (StockTickers \cup {IHSG_TICKER}),
    open_ratio : {Absent, NotANumber},
    min_price : {Numeral(100), NotANumber},
    min_volume_shares : {Numeral(5), NotANumber},
    sma_short : {Numeral(2), Numeral(0), NotANumber},
    sma_long : {Numeral(3), Numeral(-1)},
    rsi_period : {Numeral(3), Numeral(0)} ]

\* ------------------------------------------------------------------ responses

\* The row counts of a response: none, one bar, two bars, and enough for a
\* trailing return over HistDays.
RowCounts == {0, 1, 2} \cup (HistDays + 1 .. HistDays + 1 + MaxExtraRows)

\* The latest bar of a ticker.  Earlier bars open and close at 100 on a volume
\* of 5; against open_ratio 1.015, min_price 100 and min_volume_shares 5 the
\* first two pass every filter and each of the others fails exactly one.
LastBars ==
  { MkBar(102, 100, 6), MkBar(112, 110, 6),
    MkBar(101, 100, 6), MkBar(102, 99, 6), MkBar(102, 100, 5) }

EarlyBar == MkBar(100, 100, 5)

\* n rows of which the first lead are NaN padding and the last is `last`
MkSeries(n, lead, last) ==
  [i \in 1..n |-> IF i <= lead THEN NaNBar ELSE IF i = n THEN last ELSE EarlyBar]

\* One ticker's column group in a response of n rows: its field columns and
\* its rows.  A history may start one row late, be missing altogether (all
\* NaN), or lack a field column.
ColumnGroups(n) ==
  { [fields |-> AllFields, bars |-> MkSeries(n, lead, last)] :
      lead \in {0, 1}, last \in LastBars }
  \cup { [fields |-> AllFields, bars |-> MkSeries(n, n, NaNBar)],
         [fields |-> AllFields \ {"Close"}, bars |-> MkSeries(n, 0, MkBar(102, 100, 6))],
         [fields |-> AllFields \ {"High"}, bars |-> MkSeries(n, 0, MkBar(102, 100, 6))] }

\* The benchmark's column group.
BenchmarkGroups(n) ==
  { [fields |-> AllFields, bars |-> MkSeries(n, 0, MkBar(100, 101, 5))],
    [fields |-> AllFields, bars |-> MkSeries(n, 1, MkBar(100, 101, 5))],
    [fields |-> AllFields \ {"Close"}, bars |-> MkSeries(n, 0, MkBar(100, 101, 5))] }

NoGroup == [fields |-> {}, bars |-> << >>]

FieldOrder == <<"Close", "High", "Low", "Open", "Volume">>

\* A DataFrame as the pipeline reads it: n rows under columns that are
\*   multi: a MultiIndex (field, ticker); labels are the unique values of
\*          level 1 and group[t] is the column group of ticker t
\*   flat:  one level called name, with the labels given; group["*"] holds
\*          the columns and the rows
MultiFrame(tickers, n, g) ==
  [kind |-> "multi", name |-> "Ticker", labels |-> InOrder(tickers), n |-> n,
   group |-> [t \in tickers |-> g[t]]]

FlatFrame(name, labels, n, grp) ==
  [kind |-> "flat", name |-> name, labels |-> labels, n |-> n,
   group |-> [t \in {"*"} |-> grp]]

\* pd.DataFrame()
EmptyFrame == FlatFrame("None", << >>, 0, NoGroup)

\* DataFrame.empty: no columns or no rows
IsEmpty(df) == Len(df.labels) = 0 \/ df.n = 0

\* What yf.download may hand back for the tickers asked of it: an exception,
\* an empty frame, a keyed (MultiIndex) frame with a column group for every
\* stock ticker asked for and, possibly, the benchmark, or a flat frame for
\* one ticker `of`: the five field columns under the level name Price, or one
\* column named after the ticker under the level name Ticker.
ResponsesOfRows(download_tickers, n) ==
  LET stocks == download_tickers \ {IHSG_TICKER} IN
  { [raised |-> FALSE, of |-> "",
     frame |-> MultiFrame(stocks \cup bench, n,
                 [t \in stocks \cup bench |-> IF t = IHSG_TICKER THEN b ELSE g[t]])] :
      bench \in {{}, {IHSG_TICKER}},
      b \in BenchmarkGroups(n),
      g \in [stocks -> ColumnGroups(n)] }
  \cup
  { [raised |-> FALSE, of |-> t,
     frame |-> FlatFrame("Price", SelectSeq(FieldOrder, LAMBDA f : f \in grp.fields), n, grp)] :
      t \in download_tickers, grp \in ColumnGroups(n) }
  \cup
  { [raised |-> FALSE, of |-> t,
     frame |-> FlatFrame("Ticker", <<t>>, n,
                 [fields |-> {t}, bars |-> MkSeries(n, 0, MkBar(102, 100, 6))])] :
      t \in download_tickers }

Responses(download_tickers) ==
  { [raised |-> TRUE, of |-> "", frame |-> EmptyFrame],
    [raised |-> FALSE, of |-> "", frame |-> EmptyFrame] }
  \cup UNION { ResponsesOfRows(download_tickers, n) : n \in RowCounts }

NoResponse == [raised |-> FALSE, of |-> "", frame |-> EmptyFrame]

\* ------------------------------------------------------------------ load_historical_data

\* ihsg_data: None, or the benchmark's columns and rows
None == [none |-> TRUE, fields |-> {}, bars |-> << >>]
Some(grp) == [none |-> FALSE, fields |-> grp.fields, bars |-> grp.bars]

\* data.loc[:, (slice(None), stock_data_cols)]
StockColumns(data, stock_data_cols) ==
  LET kept == SeqToSet(data.labels) \cap stock_data_cols IN
  MultiFrame(kept, data.n, [t \in kept |-> data.group[t]])

\* (stock_data, ihsg_data) for the tickers asked for and what yf.download did
load_historical_data(tickers, response) ==
  LET stock_data_cols == tickers \ {IHSG_TICKER}
      data == response.frame
  IN  IF response.raised
      THEN [stock_data |-> EmptyFrame, ihsg_data |-> Some(NoGroup)]
      ELSE IF data.kind = "multi"
      THEN [stock_data |-> StockColumns(data, stock_data_cols),
            ihsg_data |-> IF IHSG_TICKER \in SeqToSet(data.labels)
                          THEN Some(data.group[IHSG_TICKER]) ELSE None]
      ELSE [stock_data |-> data, ihsg_data |-> None]

\* ------------------------------------------------------------------ calculate_indicators

\* a shift that is one row short
ShiftedClose_OneShort(bars, hist_days, i) ==
  IF i - hist_days + 1 >= 1 /\ i - hist_days + 1 <= Len(bars)
  THEN bars[i - hist_days + 1] ELSE NaNBar

\* df['Close'].shift(hist_days) at row i: NaN for the first hist_days rows
ShiftedClose(bars, hist_days, i) ==
  IF i - hist_days >= 1 /\ i - hist_days <= Len(bars) THEN bars[i - hist_days] ELSE NaNBar

\* (df['Close'] / df['Close'].shift(hist_days) - 1) * 100 at row i
Hist_Return_30D(bars, hist_days, i) ==
  LET now == bars[i]
      then == ShiftedClose(bars, hist_days, i)
  IN  IF now.nan \/ then.nan THEN NaNPct
      ELSE Pct((now.Close - then.Close) * 100, then.Close)

\* Series.rolling(window=w) raises ValueError for a negative window
RollingRaises(w) == w < 0

\* df['Close'].diff() at row i: NaN at the first row and beside a NaN close
Delta(bars, i) ==
  IF i < 2 \/ bars[i].nan \/ bars[i - 1].nan THEN [nan |-> TRUE, v |-> 0]
  ELSE [nan |-> FALSE, v |-> bars[i].Close - bars[i - 1].Close]

\* delta.where(delta > 0, 0) and -delta.where(delta < 0, 0) at row i: a NaN
\* delta fails either comparison and becomes 0
Up(bars, i) == LET d == Delta(bars, i) IN IF ~d.nan /\ d.v > 0 THEN d.v ELSE 0
Down(bars, i) == LET d == Delta(bars, i) IN IF ~d.nan /\ d.v < 0 THEN 0 - d.v ELSE 0

\* the sum of Up, or of Down, over rows a..b
RECURSIVE UpSum(_, _, _)
UpSum(bars, a, b) == IF a > b THEN 0 ELSE Up(bars, b) + UpSum(bars, a, b - 1)
RECURSIVE DownSum(_, _, _)
DownSum(bars, a, b) == IF a > b THEN 0 ELSE Down(bars, b) + DownSum(bars, a, b - 1)

\* 100 - (100 / (1 + gain / loss)) at row i, gain and loss being the means of
\* Up and Down over the rsi_period rows ending at i.  A rolling mean is NaN
\* before row rsi_period and for a window of no rows; x / 0 is inf for x > 0,
\* which gives 100, and 0 / 0 is NaN.  Otherwise the value is
\* 100 * gain / (gain + loss), the window's length cancelling.
RSI(bars, rsi_period, i) ==
  IF rsi_period = 0 \/ i < rsi_period THEN NaNPct
  ELSE LET g == UpSum(bars, i - rsi_period + 1, i)
           l == DownSum(bars, i - rsi_period + 1, i)
       IN  IF g = 0 /\ l = 0 THEN NaNPct ELSE Pct(100 * g, g + l)

\* The frame with its indicator columns, or the exception: KeyError for a
\* missing Close or Volume column, ValueError for a negative window.
calculate_indicators(df, ip) ==
  IF \/ "Close" \notin df.fields
     \/ "Volume" \notin df.fields
     \/ RollingRaises(ip.vol_period)
     \/ RollingRaises(ip.sma_short)
     \/ RollingRaises(ip.sma_long)
     \/ RollingRaises(ip.rsi_period)
  THEN [raised |-> TRUE, fields |-> df.fields, bars |-> df.bars,
        Hist_Return_30D |-> << >>, RSI |-> << >>]
  ELSE [raised |-> FALSE,
        fields |-> df.fields \cup {"Hist_Return_30D", "Avg_Volume", "SMA_Short", "SMA_Long", "RSI"},
        bars |-> df.bars,
        Hist_Return_30D |-> [i \in 1..Len(df.bars) |-> Hist_Return_30D(df.bars, ip.hist_days, i)],
        RSI |-> [i \in 1..Len(df.bars) |-> RSI(df.bars, ip.rsi_period, i)]]

\* ------------------------------------------------------------------ create_plotly_json

\* The chart reads the OHLC columns, Volume and the indicator columns; a
\* missing column is a KeyError.
create_plotly_json_raises(df) ==
  ~({"Open", "High", "Low", "Close", "Volume", "SMA_Short", "SMA_Long", "RSI"} \subseteq df.fields)

\* ------------------------------------------------------------------ screen_and_extract

\* the three hard filters on the latest bar; a comparison with NaN is False
open_ratio_ok(latest, yesterday, cp) ==
  /\ ~latest.nan /\ ~yesterday.nan
  /\ latest.Open * 1000 > cp.open_ratio * yesterday.Close

\* a strict comparison where the code's is not
min_price_ok_strict(latest, cp) ==
  ~latest.nan /\ latest.Close > cp.min_price

min_price_ok(latest, cp) ==
  ~latest.nan /\ latest.Close >= cp.min_price

min_volume_ok(latest, cp) ==
  ~latest.nan /\ latest.Volume > cp.min_volume_shares

\* the latest close over the previous close, where the code takes the open
RatioFmt_CloseOverClose(latest, yesterday) ==
  IF latest.nan \/ yesterday.nan THEN [nan |-> TRUE, v |-> 0]
  ELSE [nan |-> FALSE, v |-> RoundDiv(latest.Close * 1000, yesterday.Close)]

\* f"{(current_open / yesterday_close):.3f}x": the ratio in thousandths
RatioFmt(latest, yesterday) ==
  IF latest.nan \/ yesterday.nan THEN [nan |-> TRUE, v |-> 0]
  ELSE [nan |-> FALSE, v |-> RoundDiv(latest.Open * 1000, yesterday.Close)]

\* f"{x:.2f}" of a percentage: the value in hundredths, or 'nan'
PctFmt2(pct) ==
  IF pct.nan THEN [nan |-> TRUE, v |-> 0]
  ELSE [nan |-> FALSE, v |-> RoundDivSigned(pct.num * 100, pct.den)]

MkResult(ticker, latest, yesterday, return_30d, rsi) ==
  [Ticker |-> ticker,
   Harga_Terakhir |-> Fmt2(latest.nan, latest.Close),
   Gain_30D |-> return_30d,
   Open_Close_Ratio |-> RatioFmt(latest, yesterday),
   Open_Hari_Ini |-> Fmt2(latest.nan, latest.Open),
   Close_Kemarin |-> Fmt2(yesterday.nan, yesterday.Close),
   Volume_Hari_Ini |-> Fmt0(latest.nan, latest.Volume),
   RSI |-> PctFmt2(rsi)]

NoResult == MkResult("", NaNBar, NaNBar, NaNPct, NaNPct)

\* what one pass of the loop body does for a ticker
Pass(skip, emit, chart, result) ==
  [skipped |-> skip, emitted |-> emit, charted |-> chart, result |-> result]

\* The body of the loop over tickers_to_process, its try/except included:
\* whether the ticker is logged as skipped, whether a record is appended (and
\* which), and whether a chart is stored.
LoopBody(ticker, full_data, cp, ip) ==
  LET multi == full_data.kind = "multi"
      stock_df == IF multi THEN full_data.group[ticker] ELSE full_data.group["*"]
  IN  IF ~multi /\ full_data.name = "Ticker" /\ full_data.labels[1] # ticker
      THEN Pass(FALSE, FALSE, FALSE, NoResult)
      ELSE
      LET df == calculate_indicators(stock_df, ip)
          n == Len(df.bars)
      IN  IF df.raised \/ n = 0 \/ "Open" \notin df.fields
          THEN Pass(TRUE, FALSE, FALSE, NoResult)
          ELSE
          LET latest == df.bars[n]
              yesterday == IF n > 1 THEN df.bars[n - 1] ELSE latest
              return_30d == IF "Hist_Return_30D" \in df.fields
                            THEN df.Hist_Return_30D[n] ELSE Pct(-999, 1)
              rsi == IF "RSI" \in df.fields THEN df.RSI[n] ELSE NaNPct
          IN  IF /\ open_ratio_ok(latest, yesterday, cp)
                 /\ min_price_ok(latest, cp)
                 /\ min_volume_ok(latest, cp)
              THEN IF create_plotly_json_raises(df)
                   THEN Pass(TRUE, TRUE, FALSE, MkResult(ticker, latest, yesterday, return_30d, rsi))
                   ELSE Pass(FALSE, TRUE, TRUE, MkResult(ticker, latest, yesterday, return_30d, rsi))
              ELSE Pass(FALSE, FALSE, FALSE, NoResult)

\* tickers_available, when full_data is not an empty flat frame
tickers_available(full_data) ==
  IF full_data.kind = "multi" THEN full_data.labels
  ELSE IF full_data.name = "Ticker" THEN <<full_data.labels[1]>>
  ELSE <<IHSG_TICKER>>

\* the early return of screen_and_extract
ReturnsEarly(full_data) == full_data.kind # "multi" /\ IsEmpty(full_data)

\* ihsg_status: 'N/A', or the latest close to two decimals with the signed
\* change to two decimals (in hundredths of a percent)
NotAvailable == [na |-> TRUE, close |-> [nan |-> FALSE, v |-> 0], change |-> [nan |-> FALSE, v |-> 0]]

StatusFmt(ihsg_latest, change) ==
  [na |-> FALSE,
   close |-> Fmt2(ihsg_latest.nan, ihsg_latest.Close),
   change |-> IF change.nan THEN [nan |-> TRUE, v |-> 0]
              ELSE [nan |-> FALSE, v |-> RoundDivSigned(change.num * 100, change.den)]]

\* the change taken relative to the latest close, not the previous one
ChangePct_OverLatest(ihsg_latest, ihsg_prev_close) ==
  IF ihsg_latest.nan \/ ihsg_prev_close.nan THEN NaNPct
  ELSE Pct((ihsg_latest.Close - ihsg_prev_close.Close) * 100, ihsg_latest.Close)

\* ((ihsg_latest / ihsg_prev_close) - 1) * 100
ChangePct(ihsg_latest, ihsg_prev_close) ==
  IF ihsg_latest.nan \/ ihsg_prev_close.nan THEN NaNPct
  ELSE Pct((ihsg_latest.Close - ihsg_prev_close.Close) * 100, ihsg_prev_close.Close)

\* the benchmark analysis: whether it raises (KeyError: no Close column), and
\* ihsg_status and ihsg_change otherwise
Benchmark(ihsg_data) ==
  IF ihsg_data.none \/ ihsg_data.fields = {} \/ Len(ihsg_data.bars) = 0
  THEN [raised |-> FALSE, status |-> NotAvailable, change |-> Pct(0, 1)]
  ELSE IF "Close" \notin ihsg_data.fields
  THEN [raised |-> TRUE, status |-> NotAvailable, change |-> Pct(0, 1)]
  ELSE
    LET n == Len(ihsg_data.bars)
        ihsg_latest == ihsg_data.bars[n]
        ihsg_prev_close == IF n > 1 THEN ihsg_data.bars[n - 1] ELSE ihsg_latest
        ihsg_change == ChangePct(ihsg_latest, ihsg_prev_close)
    IN  [raised |-> FALSE, status |-> StatusFmt(ihsg_latest, ihsg_change), change |-> ihsg_change]

\* ------------------------------------------------------------------ analyze: ranking

\* the positions of rows whose 'Gain 30D (%)' is not NaN
Defined(rows) == {i \in DOMAIN rows : ~rows[i].Gain_30D.nan}

\* sort_values(by=['Gain 30D (%)'], ascending=False) puts NaN last and orders
\* the rest by non-increasing value; the default sort is not stable, so rows
\* of equal value may come out in either order
SortedDescending(rows, p) ==
  \A i, j \in DOMAIN rows :
     i < j =>
       /\ ~(rows[p[i]].Gain_30D.nan /\ ~rows[p[j]].Gain_30D.nan)
       /\ (~rows[p[i]].Gain_30D.nan /\ ~rows[p[j]].Gain_30D.nan
             => ~PctLess(rows[p[i]].Gain_30D, rows[p[j]].Gain_30D))

\* every order of the rows: a sort that sorts nothing
sort_values_unsorted(rows) ==
  { [i \in DOMAIN rows |-> rows[p[i]]] : p \in Permutations(DOMAIN rows) }

sort_values(rows) ==
  { [i \in DOMAIN rows |-> rows[p[i]]] :
      p \in {q \in Permutations(DOMAIN rows) : SortedDescending(rows, q)} }

\* dropna(subset=['Gain 30D (%)'])
dropna(rows) == SelectSeq(rows, LAMBDA r : ~r.Gain_30D.nan)

\* ------------------------------------------------------------------ state

VARIABLES
  pc,                     \* where the request is in analyze
  form_data,              \* request.form
  selected_tickers_list,
  criteria_params,
  indicator_params,
  exc,                    \* the exception being handled, by its message
  fetch_calls,            \* how often yf.download was invoked
  response,               \* what yf.download did
  full_data,
  ihsg_data,
  tickers_to_process,
  idx,                    \* the loop's position in tickers_to_process
  results,
  chart_jsons,            \* the keys of chart_jsons
  skipped,                \* the tickers logged as skipped
  ihsg_status,
  ihsg_change,
  final_results,
  outcome,                \* "success", "error" (a page with error_message) or "escaped"
  error_message

vars ==
  << pc, form_data, selected_tickers_list, criteria_params, indicator_params, exc,
     fetch_calls, response, full_data, ihsg_data, tickers_to_process, idx, results,
     chart_jsons, skipped, ihsg_status, ihsg_change, final_results, outcome,
     error_message >>

request_vars == << form_data, selected_tickers_list, criteria_params, indicator_params >>
fetch_vars == << fetch_calls, response, full_data, ihsg_data >>
screen_vars == << tickers_to_process, idx, results, chart_jsons, skipped, ihsg_status, ihsg_change >>
render_vars == << final_results, outcome, error_message >>

NoCriteria == [open_ratio |-> 0, min_price |-> 0, min_volume_shares |-> 0]
NoIndicators ==
  [sma_short |-> 0, sma_long |-> 0, rsi_period |-> 0, vol_period |-> 0, hist_days |-> 0]
NoForm ==
  [tickers_list |-> {}, open_ratio |-> Absent, min_price |-> Absent,
   min_volume_shares |-> Absent, sma_short |-> Absent, sma_long |-> Absent,
   rsi_period |-> Absent]

Init ==
  /\ pc = "idle"
  /\ form_data = NoForm
  /\ selected_tickers_list = {}
  /\ criteria_params = NoCriteria
  /\ indicator_params = NoIndicators
  /\ exc = "none"
  /\ fetch_calls = 0
  /\ response = NoResponse
  /\ full_data = EmptyFrame
  /\ ihsg_data = None
  /\ tickers_to_process = << >>
  /\ idx = 1
  /\ results = << >>
  /\ chart_jsons = {}
  /\ skipped = {}
  /\ ihsg_status = NotAvailable
  /\ ihsg_change = Pct(0, 1)
  /\ final_results = << >>
  /\ outcome = "none"
  /\ error_message = "none"

\* ------------------------------------------------------------------ analyze

\* whether building criteria_params from the form raises ValueError
CriteriaRaise(form) ==
  Raises(form.open_ratio) \/ Raises(form.min_price) \/ Raises(form.min_volume_shares)

IndicatorsRaise(form) ==
  Raises(form.sma_short) \/ Raises(form.sma_long) \/ Raises(form.rsi_period)

CriteriaOf(form) ==
  [open_ratio |-> Parsed(form.open_ratio, DefaultOpenRatio),
   min_price |-> Parsed(form.min_price, DefaultMinPrice),
   min_volume_shares |-> Parsed(form.min_volume_shares, DefaultMinVolumeShares)]

IndicatorsOf(form) ==
  [sma_short |-> Parsed(form.sma_short, DefaultSmaShort),
   sma_long |-> Parsed(form.sma_long, DefaultSmaLong),
   rsi_period |-> Parsed(form.rsi_period, DefaultRsiPeriod),
   vol_period |-> VolPeriod,
   hist_days |-> HistDays]

\* the check of the ticker list
TickersMissing(tickers) == tickers = {}

\* Step 1 of analyze: read the form, build the parameters, check the list.
ReadForm ==
  /\ pc = "idle"
  /\ \E form \in Forms :
       /\ form_data' = form
       /\ selected_tickers_list' = form.tickers_list
       /\ IF CriteriaRaise(form) \/ IndicatorsRaise(form)
          THEN /\ pc' = "except_ValueError"
               /\ exc' = "invalid literal"
               /\ UNCHANGED << criteria_params, indicator_params >>
          ELSE /\ criteria_params' = CriteriaOf(form)
               /\ indicator_params' = IndicatorsOf(form)
               /\ IF TickersMissing(form.tickers_list)
                  THEN pc' = "except_ValueError" /\ exc' = "Harap masukkan minimal satu ticker"
                  ELSE pc' = "fetch" /\ exc' = exc
  /\ UNCHANGED << fetch_vars, screen_vars, render_vars >>

\* Step 2: load_historical_data, with whatever yf.download does.
Fetch ==
  /\ pc = "fetch"
  /\ LET all_data_tickers == selected_tickers_list \cup {IHSG_TICKER} IN
     \E r \in Responses(all_data_tickers \cup {IHSG_TICKER}) :
       LET loaded == load_historical_data(all_data_tickers, r) IN
       /\ response' = r
       /\ full_data' = loaded.stock_data
       /\ ihsg_data' = loaded.ihsg_data
  /\ fetch_calls' = fetch_calls + 1
  /\ pc' = "screen"
  /\ UNCHANGED << request_vars, exc, screen_vars, render_vars >>

\* Step 3, up to the loop: tickers_available, the benchmark analysis and
\* tickers_to_process; or the early return, or the benchmark's KeyError.
ScreenStart ==
  /\ pc = "screen"
  /\ IF ReturnsEarly(full_data)
     THEN /\ results' = << >>
          /\ chart_jsons' = {}
          /\ ihsg_status' = NotAvailable
          /\ ihsg_change' = Pct(0, 1)
          /\ pc' = "screened"
          /\ UNCHANGED << exc, tickers_to_process, idx, skipped >>
     ELSE LET b == Benchmark(ihsg_data) IN
          IF b.raised
          THEN /\ pc' = "except_Exception"
               /\ exc' = "Close"
               /\ UNCHANGED screen_vars
          ELSE /\ ihsg_status' = b.status
               /\ ihsg_change' = b.change
               /\ tickers_to_process' =
                    SelectSeq(tickers_available(full_data), LAMBDA t : t # IHSG_TICKER)
               /\ pc' = "loop"
               /\ UNCHANGED << exc, idx, results, chart_jsons, skipped >>
  /\ UNCHANGED << request_vars, fetch_vars, render_vars >>

\* a loop whose body has no try/except of its own stops at the first fault
AfterBody_StopAtFault(ticker, body) ==
  /\ results' = IF body.emitted THEN Append(results, body.result) ELSE results
  /\ chart_jsons' = IF body.charted THEN chart_jsons \cup {ticker} ELSE chart_jsons
  /\ skipped' = IF body.skipped THEN skipped \cup {ticker} ELSE skipped
  /\ idx' = IF body.skipped THEN Len(tickers_to_process) + 1 ELSE idx + 1
  /\ pc' = pc

\* what the loop does once a ticker's body has run
AfterBody(ticker, body) ==
  /\ results' = IF body.emitted THEN Append(results, body.result) ELSE results
  /\ chart_jsons' = IF body.charted THEN chart_jsons \cup {ticker} ELSE chart_jsons
  /\ skipped' = IF body.skipped THEN skipped \cup {ticker} ELSE skipped
  /\ idx' = idx + 1
  /\ pc' = pc

\* One pass of the loop over tickers_to_process.
ScreenTicker ==
  /\ pc = "loop"
  /\ idx <= Len(tickers_to_process)
  /\ AfterBody(tickers_to_process[idx],
               LoopBody(tickers_to_process[idx], full_data, criteria_params, indicator_params))
  /\ UNCHANGED << request_vars, exc, fetch_vars, tickers_to_process, ihsg_status,
                  ihsg_change, render_vars >>

\* The loop is over: screen_and_extract returns.
ScreenReturn ==
  /\ pc = "loop"
  /\ idx > Len(tickers_to_process)
  /\ pc' = "screened"
  /\ UNCHANGED << request_vars, exc, fetch_vars, screen_vars, render_vars >>

\* whether analyze gives up on what screen_and_extract returned
NothingPassed(rows) == rows = << >>

\* Step 3's end and step 4: the check for results, the ranking, the page.
RankAndRender ==
  /\ pc = "screened"
  /\ IF NothingPassed(results)
     THEN /\ pc' = "except_ValueError"
          /\ exc' = "Tidak ada saham yang lolos"
          /\ UNCHANGED render_vars
     ELSE /\ \E sorted \in sort_values(results) : final_results' = dropna(sorted)
          /\ outcome' = "success"
          /\ error_message' = "none"
          /\ pc' = "done"
          /\ exc' = exc
  /\ UNCHANGED << request_vars, fetch_vars, screen_vars >>

\* whether a handler's own reading of the criteria fields raises ValueError
HandlerRaises(form) == CriteriaRaise(form)

\* except ValueError: the form again, with str(e) as the error message.
ExceptValueError ==
  /\ pc = "except_ValueError"
  /\ IF HandlerRaises(form_data)
     THEN outcome' = "escaped" /\ error_message' = error_message
     ELSE outcome' = "error" /\ error_message' = exc
  /\ pc' = "done"
  /\ UNCHANGED << request_vars, exc, fetch_vars, screen_vars, final_results >>

\* except Exception: the form again, with the general error message.
ExceptException ==
  /\ pc = "except_Exception"
  /\ IF HandlerRaises(form_data)
     THEN outcome' = "escaped" /\ error_message' = error_message
     ELSE outcome' = "error" /\ error_message' = "Terjadi kesalahan tak terduga"
  /\ pc' = "done"
  /\ UNCHANGED << request_vars, exc, fetch_vars, screen_vars, final_results >>

Next ==
  \/ ReadForm
  \/ Fetch
  \/ ScreenStart
  \/ ScreenTicker
  \/ ScreenReturn
  \/ RankAndRender
  \/ ExceptValueError
  \/ ExceptException

Spec == Init /\ [][Next]_vars

\* ------------------------------------------------------------------ properties

\* the rows screen_and_extract read for a ticker
RowsOf(ticker) ==
  IF full_data.kind = "multi" THEN full_data.group[ticker].bars ELSE full_data.group["*"].bars

\* the tickers the loop has been through
Processed == {tickers_to_process[i] : i \in 1..(idx - 1)}

HasRecord(ticker) == \E i \in DOMAIN results : results[i].Ticker = ticker

\* the latest bar and the one before it (the latest itself when it is alone)
LatestBar(rows) == rows[Len(rows)]
PriorBar(rows) == IF Len(rows) > 1 THEN rows[Len(rows) - 1] ELSE rows[Len(rows)]

\* latest open > open_ratio x previous close, with open_ratio in thousandths
C1_OpenAbove(rows) ==
  /\ ~LatestBar(rows).nan /\ ~PriorBar(rows).nan
  /\ 1000 * LatestBar(rows).Open > criteria_params.open_ratio * PriorBar(rows).Close

C1_PriceAtLeast(rows) ==
  ~LatestBar(rows).nan /\ ~(LatestBar(rows).Close < criteria_params.min_price)

C1_VolumeAbove(rows) ==
  ~LatestBar(rows).nan /\ LatestBar(rows).Volume > criteria_params.min_volume_shares

Succeeded == pc = "done" /\ outcome = "success"

\* C2: the list a successful run returns is in order of non-increasing
\* 'Gain 30D (%)', holds no record whose gain is undefined, and holds exactly
\* the screening records whose gain is defined, each once.
C2_RankedListIsSortedDefinedResults ==
  Succeeded =>
    /\ \A i, j \in DOMAIN final_results :
         i < j => ~PctLess(final_results[i].Gain_30D, final_results[j].Gain_30D)
    /\ \A i \in DOMAIN final_results : ~final_results[i].Gain_30D.nan
    /\ SeqToSet(final_results) = {results[i] : i \in Defined(results)}
    /\ Len(final_results) = Cardinality(Defined(results))

\* C2's case: two records came out of screening with the smaller gain first,
\* and the returned list holds both with the larger gain first.
C2_Witness ==
  /\ Succeeded
  /\ Len(results) = 2 /\ Len(final_results) = 2
  /\ PctLess(results[1].Gain_30D, results[2].Gain_30D)
  /\ final_results[1] = results[2]
  /\ final_results[2] = results[1]

\* screen_and_extract was called and returned (it raised nothing)
ScreeningReturned == fetch_calls > 0 /\ exc \in {"none", "Tidak ada saham yang lolos"}

\* C3: a run never succeeds with an empty ranked list: when nothing is left
\* after screening and ranking it ends in the NoResults error.
C3_EmptyRankedListIsNoResults ==
  pc = "done" /\ ScreeningReturned /\ final_results = << >> =>
    outcome = "error" /\ error_message = "Tidak ada saham yang lolos"

\* what the fetch came back with
FetchCameBackEmpty == fetch_calls > 0 /\ (response.raised \/ response.frame = EmptyFrame)

\* C4: a run whose fetch raised or came back wholly empty ends with an error
\* message other than the one of a run in which data came back and no ticker
\* passed the filters.
C4_DataUnavailableIsNotNoResults ==
  pc = "done" /\ FetchCameBackEmpty =>
    outcome = "error" /\ error_message # "Tidak ada saham yang lolos"

\* the records screening gives for the tickers in `tickers`, read from `frame`
RECURSIVE RecordsFor(_, _)
RecordsFor(tickers, frame) ==
  IF tickers = << >> THEN << >>
  ELSE LET body == LoopBody(Head(tickers), frame, criteria_params, indicator_params)
       IN  (IF body.emitted THEN <<body.result>> ELSE << >>) \o RecordsFor(Tail(tickers), frame)

\* the response without the columns of the tickers in `gone`
FrameWithout(gone) ==
  IF full_data.kind = "multi"
  THEN StockColumns(full_data, SeqToSet(full_data.labels) \ gone)
  ELSE full_data

\* C5: a fault while one ticker is processed does not end the loop: the loop
\* goes through every ticker, no exception leaves screen_and_extract because
\* of it, and the records of the tickers that did not fault are those that
\* screening gives when the faulting tickers are not in the response at all.
C5_FaultSkipsOnlyItsTicker ==
  /\ pc = "except_Exception" => skipped = {}
  /\ pc = "screened" /\ ~ReturnsEarly(full_data) =>
       /\ Processed = SeqToSet(tickers_to_process)
       /\ SelectSeq(results, LAMBDA r : r.Ticker \notin skipped)
            = RecordsFor(SelectSeq(tickers_available(FrameWithout(skipped)),
                                   LAMBDA t : t # IHSG_TICKER),
                         FrameWithout(skipped))

\* C5's case: the first ticker faulted and has no record; the second was
\* processed after it and has one.
C5_Witness ==
  /\ pc = "screened"
  /\ Len(tickers_to_process) = 2
  /\ tickers_to_process[1] \in skipped /\ ~HasRecord(tickers_to_process[1])
  /\ tickers_to_process[2] \notin skipped /\ HasRecord(tickers_to_process[2])

\* C6: whatever the form holds, no exception leaves analyze.
C6_NoExceptionEscapes == pc = "done" => outcome \in {"success", "error"}

\* the messages of a run that failed on its input
InvalidInputMessages == {"Harap masukkan minimal satu ticker", "invalid literal"}

\* C7: a run whose ticker list is empty ends in the InvalidInput error, and
\* no fetch, screening or ranking has taken place in it.
C7_EmptyListFailsBeforeFetch ==
  pc = "done" /\ selected_tickers_list = {} =>
    /\ fetch_calls = 0 /\ Processed = {} /\ final_results = << >>
    /\ outcome = "error" /\ error_message \in InvalidInputMessages

\* an indicator field of the form that is a numeral not above zero
NonPositive(field) == field.given /\ field.ok /\ field.v <= 0

\* C8: a run whose fields all parse and whose sma_short, sma_long or
\* rsi_period is zero or negative ends in the InvalidInput error without a
\* fetch.
C8_NonPositiveConfigFailsFast ==
  /\ pc = "done"
  /\ ~CriteriaRaise(form_data) /\ ~IndicatorsRaise(form_data)
  /\ NonPositive(form_data.sma_short) \/ NonPositive(form_data.sma_long)
       \/ NonPositive(form_data.rsi_period)
  => /\ fetch_calls = 0
     /\ outcome = "error" /\ error_message \in InvalidInputMessages

\* the response has the flat shape, for the one ticker response.of
FlatResponse == fetch_calls > 0 /\ response.frame.kind = "flat" /\ response.of # ""

\* C9: with a flat response for the benchmark, the benchmark series is set
\* and no ticker is screened; with a flat response for another ticker, that
\* ticker is screened, and has a record when its latest bar passes the
\* filters.
C9_FlatResponseIsAssigned ==
  pc = "screened" /\ FlatResponse /\ ~IsEmpty(response.frame) =>
    IF response.of = IHSG_TICKER
    THEN ~ihsg_data.none /\ ihsg_data.bars = response.frame.group["*"].bars
         /\ tickers_to_process = << >>
    ELSE /\ tickers_to_process = <<response.of>>
         /\ response.of \in Processed
         /\ (response.of \notin skipped
               /\ C1_OpenAbove(RowsOf(response.of))
               /\ C1_PriceAtLeast(RowsOf(response.of))
               /\ C1_VolumeAbove(RowsOf(response.of))
             => HasRecord(response.of))

\* the benchmark series has at least one bar
BenchmarkHasBars == ~ihsg_data.none /\ ihsg_data.fields # {} /\ Len(ihsg_data.bars) >= 1

GroupOf(ticker) ==
  IF full_data.kind = "multi" THEN full_data.group[ticker] ELSE full_data.group["*"]

\* the record of a ticker that has one
RecordOf(ticker) == results[CHOOSE i \in DOMAIN results : results[i].Ticker = ticker]

\* how many bars a series holds: its rows that are not NaN padding
BarCount(rows) == Cardinality({i \in DOMAIN rows : ~rows[i].nan})

\* a percentage is (now / before - 1) x 100
C11_IsReturn(pct, now, before) ==
  ~pct.nan /\ pct.num * before = 100 * (now - before) * pct.den

\* the claim's trailing return of a series, checked on the value `pct`
C11_Agrees(pct, rows) ==
  IF BarCount(rows) >= HistDays + 1
  THEN C11_IsReturn(pct, rows[Len(rows)].Close, rows[Len(rows) - HistDays].Close)
  ELSE pct.nan

\* C11: the trailing return at the latest bar of a series of at least
\* hist_days + 1 bars is (latest close / close hist_days bars earlier - 1)
\* x 100, and it is undefined for a series of fewer bars; this is the value
\* calculate_indicators gives and the value a record carries.
C11_TrailingReturn ==
  \A t \in Processed \ skipped :
     LET rows == RowsOf(t)
         df == calculate_indicators(GroupOf(t), indicator_params)
     IN  /\ C11_Agrees(df.Hist_Return_30D[Len(rows)], rows)
         /\ HasRecord(t) => C11_Agrees(RecordOf(t).Gain_30D, rows)

\* C11's case: 31 closes of 100, ..., 100, 110 with hist_days = 30, and a
\* record whose trailing return is 10.
C11_Witness ==
  \E t \in Processed \ skipped :
     /\ HasRecord(t)
     /\ Len(RowsOf(t)) = 31 /\ HistDays = 30
     /\ \A i \in 1..30 : ~RowsOf(t)[i].nan /\ RowsOf(t)[i].Close = 100
     /\ RowsOf(t)[31].Close = 110
     /\ RecordOf(t).Gain_30D.num = 10 * RecordOf(t).Gain_30D.den

\* the bars of a series up to row i
BarsUpTo(rows, i) == Cardinality({j \in 1..i : ~rows[j].nan})

\* the oscillator is a number from 0 to 100
C12_InRange(pct) == ~pct.nan /\ pct.num >= 0 /\ pct.num <= 100 * pct.den

\* C12: with a positive rsi_period, the oscillator at every bar of a series
\* is a number from 0 to 100 or undefined, and it is undefined only at a bar
\* with no more than rsi_period bars up to it.
C12_OscillatorDefinedOnHistory ==
  indicator_params.rsi_period > 0 =>
    \A t \in Processed \ skipped :
       LET rows == RowsOf(t)
           df == calculate_indicators(GroupOf(t), indicator_params)
       IN  \A i \in DOMAIN rows :
              /\ df.RSI[i].nan \/ C12_InRange(df.RSI[i])
              /\ df.RSI[i].nan => BarsUpTo(rows, i) <= indicator_params.rsi_period

\* a record was emitted for a ticker whose series has exactly one row
OneBarRecord(t) == t \in Processed \ skipped /\ HasRecord(t) /\ Len(RowsOf(t)) = 1

C14_PlaceholderForUndefinedReturn ==
  \A t \in StockTickers :
     (t \in Processed /\ HasRecord(t) /\ BarCount(RowsOf(t)) < HistDays + 1) =>
        /\ ~RecordOf(t).Gain_30D.nan
        /\ RecordOf(t).Gain_30D.num = (0 - 999) * RecordOf(t).Gain_30D.den

\* the tickers of the records a run returns
ReturnedTickers == {final_results[i].Ticker : i \in DOMAIN final_results}

\* C15: when a run succeeds, the tickers keyed in the chart map are exactly
\* the tickers of the records in the returned list.
C15_ChartKeysAreReturnedTickers ==
  Succeeded => chart_jsons = ReturnedTickers

====
